---- MODULE Spec2Model ----
(***************************************************************************)
(* Model of Analyzer: Analyzer.py (the script: file selection, the report  *)
(* loop over window sizes 1..150) and analysismodule.py (end_vector,       *)
(* regress, ProcessAnalysis.get_points / regress).                         *)
(*                                                                         *)
(* Floating point numbers are modelled as IEEE-like values: a finite       *)
(* decimal fixed-point number (an integer count of 1/FScale) or one of     *)
(* NaN, +Inf, -Inf.  numpy arithmetic never raises on these (it warns and  *)
(* returns NaN/Inf); Python's round() raises on them.                      *)
(***************************************************************************)
EXTENDS Integers, Sequences, FiniteSets, TLC

(***************************************************************************)
(* Bounds of the model.                                                    *)
(***************************************************************************)
\* largest number of files a selection holds
MaxFiles == 3
\* largest number of snapshots in a generated trajectory
MaxSnaps == 3
\* largest step value of a generated snapshot
MaxStep == 3
\* largest window size passed to get_points / regress through the API
MaxCount == 4
\* number of binary digits log10 computes after the point
LogBits == 8
\* largest exponent A of the synthetic power law r = (n - 1)^A
MaxExp == 2
\* largest number of points passed to regress directly
MaxPts == 4

\* last window size of the report loop: range(1, 151)
LastWindow == 150

\* one unit of a finite number is 1/FScale: four decimal digits, the most
\* that keeps every product inside TLC's 32-bit integers
FScale == 100 * 100

(***************************************************************************)
(* Generic helpers.                                                        *)
(***************************************************************************)
Abs(i) == IF i < 0 THEN -i ELSE i

Sgn(i) == IF i < 0 THEN -1 ELSE IF i > 0 THEN 1 ELSE 0

\* all sequences over S of length 0..n
SeqsUpTo(S, n) == UNION { [1..m -> S] : m \in 0..n }

(***************************************************************************)
(* float64 values and the numpy operations the code applies to them.       *)
(***************************************************************************)
Fin(v) == [k |-> "fin", v |-> v]
NaN == [k |-> "nan", v |-> 0]
PInf == [k |-> "inf", v |-> 1]
NInf == [k |-> "inf", v |-> -1]

IsFin(x) == x.k = "fin"
IsNaN(x) == x.k = "nan"
IsInf(x) == x.k = "inf"

\* the sign of a non-NaN value
FSign(x) == Sgn(x.v)

\* an integer as a float
FromInt(i) == Fin(i * FScale)

\* x + y
FAdd(x, y) ==
    IF IsNaN(x) \/ IsNaN(y) THEN NaN
    ELSE IF IsInf(x) /\ IsInf(y) THEN (IF x.v = y.v THEN x ELSE NaN)
    ELSE IF IsInf(x) THEN x
    ELSE IF IsInf(y) THEN y
    ELSE Fin(x.v + y.v)

\* -x
FNeg(x) == IF IsNaN(x) THEN NaN ELSE [k |-> x.k, v |-> -x.v]

\* x - y
FSub(x, y) == FAdd(x, FNeg(y))

\* (p * q) \div FScale for naturals p, q, without forming p * q
MulUnits(p, q) ==
    p * (q \div FScale) + (p \div FScale) * (q % FScale)
    + ((p % FScale) * (q % FScale)) \div FScale

\* x * y, the finite product truncated toward zero to a unit
FMul(x, y) ==
    IF IsNaN(x) \/ IsNaN(y) THEN NaN
    ELSE IF IsInf(x) \/ IsInf(y)
         THEN (IF FSign(x) * FSign(y) = 0 THEN NaN
               ELSE IF FSign(x) * FSign(y) > 0 THEN PInf ELSE NInf)
    ELSE Fin(Sgn(x.v) * Sgn(y.v) * MulUnits(Abs(x.v), Abs(y.v)))

\* p / q for naturals p, q > 0 in units of 1/FScale, by long division
RECURSIVE LongDiv(_, _, _)
LongDiv(p, q, unit) ==
    IF unit = 0 THEN 0
    ELSE (p \div q) * unit + LongDiv((p % q) * 10, q, unit \div 10)

\* x / y as numpy divides float64 scalars: division by zero gives Inf or NaN
FDiv(x, y) ==
    IF IsNaN(x) \/ IsNaN(y) THEN NaN
    ELSE IF IsInf(x) /\ IsInf(y) THEN NaN
    ELSE IF IsInf(x) THEN (IF FSign(x) * (IF y.v < 0 THEN -1 ELSE 1) > 0
                           THEN PInf ELSE NInf)
    ELSE IF IsInf(y) THEN Fin(0)
    ELSE IF y.v = 0 THEN (IF x.v = 0 THEN NaN
                          ELSE IF x.v > 0 THEN PInf ELSE NInf)
    ELSE Fin(Sgn(x.v) * Sgn(y.v) * LongDiv(Abs(x.v), Abs(y.v), FScale))

\* the largest r with r * r <= n, by bisection on lo..hi
RECURSIVE ISqrt(_, _, _)
ISqrt(n, lo, hi) ==
    IF lo >= hi THEN lo
    ELSE LET mid == (lo + hi + 1) \div 2
         IN  IF mid * mid <= n THEN ISqrt(n, mid, hi) ELSE ISqrt(n, lo, mid - 1)

\* np.sqrt(x): NaN for a negative argument
FSqrt(x) ==
    IF IsNaN(x) THEN NaN
    ELSE IF IsInf(x) THEN (IF x.v > 0 THEN PInf ELSE NaN)
    ELSE IF x.v < 0 THEN NaN
    ELSE IF x.v <= 2147483647 \div FScale
    THEN Fin(ISqrt(x.v * FScale, 0, 46340))
    ELSE Fin(ISqrt(x.v, 0, 46340) * ISqrt(FScale, 0, 46340))

\* the fraction of log10(m / 1000) for a mantissa 1000 <= m < 10000, as a
\* count of 1/2^bits: square the mantissa, emit a 1 whenever it passes 10
RECURSIVE LogFrac(_, _)
LogFrac(m, bits) ==
    IF bits = 0 THEN 0
    ELSE LET sq == (m * m) \div 1000
         IN  IF sq >= 10000
             THEN 2 ^ (bits - 1) + LogFrac(sq \div 10, bits - 1)
             ELSE LogFrac(sq, bits - 1)

\* log10 of the positive finite value v / FScale, in units of 1/FScale
RECURSIVE LogPos(_, _)
LogPos(v, e) ==
    IF v >= 10 * FScale THEN LogPos(v \div 10, e + 1)
    ELSE IF v < FScale THEN LogPos(v * 10, e - 1)
    ELSE e * FScale
         + (LogFrac((v * 1000) \div FScale, LogBits) * FScale) \div (2 ^ LogBits)

\* np.log10(x): -Inf at zero, NaN below zero, no exception
Log10(x) ==
    IF IsNaN(x) THEN NaN
    ELSE IF IsInf(x) THEN (IF x.v > 0 THEN PInf ELSE NaN)
    ELSE IF x.v = 0 THEN NInf
    ELSE IF x.v < 0 THEN NaN
    ELSE Fin(LogPos(x.v, 0))

\* np.sum of a sequence of floats
RECURSIVE FSum(_)
FSum(s) == IF s = <<>> THEN Fin(0) ELSE FAdd(Head(s), FSum(Tail(s)))

(***************************************************************************)
(* Trajectories.  A snapshot has a step, a particle count N and one        *)
(* position per particle; a trajectory (the content of one dump file) is   *)
(* the sequence of snapshots in the order the file yields them.            *)
(***************************************************************************)
Snap(step, pos) == [step |-> step, N |-> Len(pos), position |-> pos]

\* a chain of n particles along x, one unit apart, its last particle at endp
Chain(n, endp) == [p \in 1..n |-> IF p = n THEN endp ELSE <<p - 1, 0, 0>>]

\* positions of generated snapshots: squared end-to-end distances 1 and 9
\* (the middle particle of the second must not matter)
PosLib ==
    { << <<0, 0, 0>>, <<1, 0, 0>> >>,
      << <<0, 0, 0>>, <<7, 7, 7>>, <<1, 2, 2>> >> }

GenSnaps == { Snap(st, pos) : st \in 1..MaxStep, pos \in PosLib }

GenTrajs == SeqsUpTo(GenSnaps, MaxSnaps)

\* dump files a run may select: two healthy chains (the first yields its
\* snapshots out of step order), a chain whose latest snapshot has coincident
\* ends, a single particle, and a file with no snapshot
RunTrajs ==
    { << Snap(2, << <<0, 0, 0>>, <<1, 2, 2>> >>),
         Snap(1, << <<0, 0, 0>>, <<1, 0, 0>> >>) >>,
      << Snap(1, Chain(11, <<10, 0, 0>>)), Snap(2, Chain(11, <<6, 8, 0>>)),
         Snap(3, Chain(11, <<8, 4, 4>>)) >>,
      << Snap(1, << <<0, 0, 0>>, <<1, 0, 0>> >>),
         Snap(2, << <<1, 1, 1>>, <<1, 1, 1>> >>) >>,
      << Snap(1, << <<0, 0, 0>> >>) >>,
      << >> }

(***************************************************************************)
(* analysismodule.py                                                       *)
(***************************************************************************)
\* the column schema of Analyzer.py: field name -> column indices
SCHEMA == [id |-> <<0>>, position |-> <<1, 2, 3>>]

\* pos[-1] - pos[0]
end_vector(snapshot) ==
    LET pos == snapshot.position
    IN  [c \in 1..3 |-> pos[Len(pos)][c] - pos[1][c]]

\* the dump as it is yielded, not sorted
Unsorted(dump) == dump

\* sorted(dump, key=lambda snap: snap.step): a stable insertion sort
RECURSIVE InsertByStep(_, _)
InsertByStep(sorted, snap) ==
    IF sorted = <<>> THEN <<snap>>
    ELSE IF sorted[Len(sorted)].step <= snap.step THEN Append(sorted, snap)
    ELSE Append(InsertByStep(SubSeq(sorted, 1, Len(sorted) - 1), snap),
                sorted[Len(sorted)])

RECURSIVE SortedByStep(_)
SortedByStep(dump) ==
    IF dump = <<>> THEN <<>>
    ELSE InsertByStep(SortedByStep(SubSeq(dump, 1, Len(dump) - 1)),
                      dump[Len(dump)])

\* snaplist[:count], the first snapshots instead of the last
SliceFirst(snaplist, count) ==
    SubSeq(snaplist, 1, IF count > Len(snaplist) THEN Len(snaplist) ELSE count)

\* a slice whose start is not clamped: nothing when count exceeds the length
SliceLastUnclamped(snaplist, count) ==
    IF count > Len(snaplist) THEN <<>>
    ELSE SubSeq(snaplist, Len(snaplist) - count + 1, Len(snaplist))

\* snaplist[-count:] with Python's slice rules: a start below zero counts from
\* the end and is clamped at the front, so -0 is the whole list
SliceLast(snaplist, count) ==
    LET len == Len(snaplist)
        start == IF -count < 0
                 THEN (IF len - count < 0 THEN 0 ELSE len - count)
                 ELSE (IF -count > len THEN len ELSE -count)
    IN  SubSeq(snaplist, start + 1, len)

\* np.sum(rmat ** 2, 1): the squared length of each end-to-end vector
Norms(rvec) ==
    [j \in 1..Len(rvec) |->
        FromInt(rvec[j][1] * rvec[j][1] + rvec[j][2] * rvec[j][2]
                + rvec[j][3] * rvec[j][3])]

\* np.mean(norms)
Mean(norms) == FDiv(FSum(norms), FromInt(Len(norms)))

\* lines 153-157 for one dump, given its sorted snapshots and the window:
\* [exc, n, r]; an empty dump or an empty position array is an IndexError,
\* an empty window an AxisError (np.sum over axis 1 of a 1-d array)
PointOfWindow(snaplist, window) ==
    IF snaplist = <<>>
    THEN [exc |-> "IndexError", n |-> Fin(0), r |-> Fin(0)]
    ELSE IF \E j \in 1..Len(window) : window[j].position = <<>>
    THEN [exc |-> "IndexError", n |-> Fin(0), r |-> Fin(0)]
    ELSE IF window = <<>>
    THEN [exc |-> "AxisError", n |-> Fin(0), r |-> Fin(0)]
    ELSE [exc |-> "none",
          n |-> FromInt(snaplist[1].N),
          r |-> Mean(Norms([j \in 1..Len(window) |-> end_vector(window[j])]))]

\* snaplist[-count:] of the sorted snapshots
PointOfSorted(snaplist, count) ==
    PointOfWindow(snaplist, SliceLast(snaplist, count))

\* one pass of the loop body of get_points, for one dump
PointOf(dump, count) == PointOfSorted(SortedByStep(dump), count)

\* the first exception a sequence of results raises, "none" if there is none
RECURSIVE FirstExc(_)
FirstExc(ps) ==
    IF ps = <<>> THEN "none"
    ELSE IF Head(ps).exc # "none" THEN Head(ps).exc
    ELSE FirstExc(Tail(ps))

\* np.array((nl, rl)) of the per-dump results, or the first exception
PackPoints(ps, self) ==
    [exc |-> FirstExc(ps),
     nl |-> IF FirstExc(ps) = "none" THEN [d \in 1..Len(ps) |-> ps[d].n] ELSE <<>>,
     rl |-> IF FirstExc(ps) = "none" THEN [d \in 1..Len(ps) |-> ps[d].r] ELSE <<>>,
     self |-> self]

PointsOf(dumps, count) == [d \in 1..Len(dumps) |-> PointOf(dumps[d], count)]

\* self.dumps had each dump been sorted in place
DumpsSortedInPlace(dumps) == [d \in 1..Len(dumps) |-> SortedByStep(dumps[d])]

\* self.dumps as get_points leaves it: sorted() builds a new list for each
\* dump and the dump itself is only read
DumpsAfterGetPoints(dumps) == dumps

\* ProcessAnalysis.get_points(count): the returned 2-row array (nl, rl), the
\* exception raised instead, and self as the call leaves it
get_points(self, count) ==
    PackPoints(PointsOf(self.dumps, count),
               [dumps |-> DumpsAfterGetPoints(self.dumps),
                schema |-> self.schema])

\* vec.reshape((-1, 1)): the same entries, as a column
to_cvec(vec) == [j \in 1..Len(vec) |-> <<vec[j]>>]

AllFin(vec) == \A j \in 1..Len(vec) : IsFin(vec[j])

\* how this build's LAPACK answers a least-squares problem that holds a NaN or
\* an Inf: np.linalg.lstsq raises LinAlgError or returns a non-finite solution
Builds == {"LinAlgError", "nan", "inf"}

\* lsq_linear(A, b) for a one-column A and unbounded bounds: the least-squares
\* solution sum(x * y) / sum(x ^ 2), the minimum-norm solution 0 when the
\* column is zero or empty.  [exc, x]
lsq_linear(A, b, bld) ==
    LET col == [j \in 1..Len(A) |-> A[j][1]]
        sxx == FSum([j \in 1..Len(col) |-> FMul(col[j], col[j])])
        sxy == FSum([j \in 1..Len(col) |-> FMul(col[j], b[j])])
    IN  IF ~(AllFin(col) /\ AllFin(b))
        THEN IF bld = "LinAlgError" THEN [exc |-> "LinAlgError", x |-> <<NaN>>]
             ELSE IF bld = "nan" THEN [exc |-> "none", x |-> <<NaN>>]
             ELSE [exc |-> "none", x |-> <<PInf>>]
        ELSE IF sxx.v = 0 THEN [exc |-> "none", x |-> <<Fin(0)>>]
        ELSE [exc |-> "none", x |-> <<FDiv(sxy, sxx)>>]

\* lines 94-99: the standard error of the fitted slope.  [exc, a, delta]
regress_delta(x, y, res) ==
    LET resid == [j \in 1..Len(y) |-> FSub(y[j], FMul(res.x[1], x[j]))]
        dy0 == FSum([j \in 1..Len(resid) |-> FMul(resid[j], resid[j])])
        dy == FDiv(dy0, FromInt(Len(y) - 2))
        dx == FDiv(FromInt(1), FSum([j \in 1..Len(x) |-> FMul(x[j], x[j])]))
        delta == FSqrt(FMul(dy, dx))
    IN  IF res.exc # "none"
        THEN [exc |-> res.exc, a |-> NaN, delta |-> NaN]
        ELSE [exc |-> "none", a |-> res.x[1], delta |-> delta]

\* lines 92-93: the fit on the logarithms
regress_fit(x, y, bld) == regress_delta(x, y, lsq_linear(to_cvec(x), y, bld))

\* the fit on log10(n) instead of log10(n - 1)
regress_log_n(nvec, yvec, bld) ==
    regress_fit([j \in 1..Len(nvec) |-> Log10(nvec[j])],
                [j \in 1..Len(yvec) |-> Log10(yvec[j])],
                bld)

\* regress(nvec, yvec): [exc, a, delta]
regress(nvec, yvec, bld) ==
    regress_fit([j \in 1..Len(nvec) |-> Log10(FSub(nvec[j], FromInt(1)))],
                [j \in 1..Len(yvec) |-> Log10(yvec[j])],
                bld)

\* ProcessAnalysis.__init__(files, schema): one DumpFile per file, in order
NewAnalysis(fs, schema) == [dumps |-> fs, schema |-> schema]

\* the result of a call on self, with self as the call leaves it
WithSelf(rg, self) ==
    [exc |-> rg.exc, a |-> rg.a, delta |-> rg.delta, self |-> self]

\* line 182: regress(ps[0], ps[1]) on the points get_points returned
regress_points(ps, bld) ==
    IF ps.exc # "none"
    THEN [exc |-> ps.exc, a |-> NaN, delta |-> NaN, self |-> ps.self]
    ELSE WithSelf(regress(ps.nl, ps.rl, bld), ps.self)

\* ProcessAnalysis.regress(count): [exc, a, delta, self]
analysis_regress(self, count, bld) ==
    regress_points(get_points(self, count), bld)

(***************************************************************************)
(* Analyzer.py: formatting of a report row.                                *)
(***************************************************************************)
\* a tie rounded up instead
RoundHalfUp(num, den) ==
    IF 2 * (num - (num \div den) * den) < den
    THEN num \div den ELSE (num \div den) + 1

\* num / den (den > 0) rounded to the nearest integer, a tie to the even one
RoundHalfEven(num, den) ==
    LET q == num \div den
        r == num - q * den
    IN  IF 2 * r < den THEN q
        ELSE IF 2 * r > den THEN q + 1
        ELSE IF q % 2 = 0 THEN q ELSE q + 1

\* a round() that hands a non-finite value through instead of raising
py_round_times_quiet(x, c) ==
    IF IsFin(x) THEN [exc |-> "none", n |-> RoundHalfEven(x.v * c, FScale)]
    ELSE [exc |-> "none", n |-> 0]

\* round(x * c) for a float x and an integer literal c: Python's round()
\* raises ValueError on NaN and OverflowError on an infinity.  [exc, n]
py_round_times(x, c) ==
    IF IsNaN(x) THEN [exc |-> "ValueError", n |-> 0]
    ELSE IF IsInf(x) THEN [exc |-> "OverflowError", n |-> 0]
    ELSE [exc |-> "none", n |-> RoundHalfEven(x.v * c, FScale)]

\* f'{x / d:.2f}' for d = 1 or 2 (halving a float is exact): the number of
\* hundredths shown, or the text nan / inf, which formatting does not refuse
fmt_2f(x, d) ==
    IF IsFin(x) THEN [k |-> "fin", v |-> RoundHalfEven(x.v * 100, d * FScale)]
    ELSE x

\* the f-string of line 36, evaluated left to right: [exc, row]
format_row(iv, av, errv) ==
    LET e100 == py_round_times(errv, 100)
        e50 == py_round_times(errv, 50)
        row == [kind |-> "row", i |-> iv,
                a |-> fmt_2f(av, 1), ea |-> e100.n,
                half |-> fmt_2f(av, 2), ehalf |-> e50.n]
    IN  IF e100.exc # "none" THEN [exc |-> e100.exc, row |-> row]
        ELSE [exc |-> e50.exc, row |-> row]

(***************************************************************************)
(* State.                                                                  *)
(***************************************************************************)
VARIABLES
    pc,        \* position of the script, or of the caller of the API
    files,     \* what askopenfilenames returned: [kind, paths]
    analysis,  \* the ProcessAnalysis object: [dumps, schema]
    out,       \* the lines printed to standard output so far
    i,         \* the loop variable of the report loop (0: not yet bound)
    a,         \* the slope last assigned at line 35
    err,       \* the standard error last assigned at line 35
    exc,       \* the exception that ended the run, "none" if none
    sampled,   \* the number of get_points calls made so far
    build,     \* how this build's LAPACK answers non-finite input
    args,      \* arguments of the direct call under check
    ret        \* what that call returned

vars == <<pc, files, analysis, out, i, a, err, exc, sampled, build, args, ret>>

Unbound == [k |-> "unbound", v |-> 0]
NoAnalysis == [dumps |-> <<>>, schema |-> <<>>]
NoCall == [op |-> "none"]

\* the empty string and the tuples askopenfilenames may return; a file is
\* identified with the trajectory it holds
EmptyString == [kind |-> "str", paths |-> <<>>]
Selections ==
    {EmptyString}
    \cup { [kind |-> "tuple", paths |-> fs] : fs \in SeqsUpTo(RunTrajs, MaxFiles) }

\* files == '' : a tuple, even an empty one, is not equal to a string
IsEmptyString(sel) == sel.kind = "str" /\ sel.paths = <<>>

BeginTable == [kind |-> "text", line |-> "\\begin{longtblr}[]{}"]
TopRule == [kind |-> "text", line |-> "    \\toprule"]
BottomRule == [kind |-> "text", line |-> "    \\bottomrule"]
EndTable == [kind |-> "text", line |-> "\\end{longtblr}"]
ArrayLine == [kind |-> "array"]
BlankLine == [kind |-> "text", line |-> ""]

(***************************************************************************)
(* Analyzer.py: the script, one action per statement group.                *)
(***************************************************************************)
Init ==
    /\ pc = "ask"
    /\ files = EmptyString
    /\ analysis = NoAnalysis
    /\ out = <<>>
    /\ i = 0
    /\ a = Unbound
    /\ err = Unbound
    /\ exc = "none"
    /\ sampled = 0
    /\ build \in Builds
    /\ args = NoCall
    /\ ret = NoCall

\* lines 12-22: files = askopenfilenames(...)
askopenfilenames ==
    /\ pc = "ask"
    /\ \E sel \in Selections : files' = sel
    /\ pc' = "check"
    /\ UNCHANGED <<analysis, out, i, a, err, exc, sampled, build, args, ret>>

\* lines 24-25: if files == '': raise ValueError
check_files ==
    /\ pc = "check"
    /\ IF IsEmptyString(files)
       THEN pc' = "error" /\ exc' = "ValueError"
       ELSE pc' = "construct" /\ exc' = exc
    /\ UNCHANGED <<files, analysis, out, i, a, err, sampled, build, args, ret>>

\* lines 27-30: analysis = ProcessAnalysis(files, SCHEMA)
construct ==
    /\ pc = "construct"
    /\ analysis' = NewAnalysis(files.paths, SCHEMA)
    /\ pc' = "preamble"
    /\ UNCHANGED <<files, out, i, a, err, exc, sampled, build, args, ret>>

\* lines 32-33: the table preamble
preamble ==
    /\ pc = "preamble"
    /\ out' = out \o <<BeginTable, TopRule>>
    /\ pc' = "loop"
    /\ UNCHANGED <<files, analysis, i, a, err, exc, sampled, build, args, ret>>

\* a range that stops one value early
LoopRangeShort(after) == { w \in 1..(LastWindow - 1) : w > after }

\* the values range(1, 151) still has to yield after i
LoopRange(after) == { w \in 1..LastWindow : w > after }

\* line 36: print the row, unless the f-string raises
row_printed(w, rg, fr) ==
    /\ a' = rg.a
    /\ err' = rg.delta
    /\ IF fr.exc # "none"
       THEN pc' = "error" /\ exc' = fr.exc /\ out' = out
       ELSE pc' = pc /\ exc' = exc /\ out' = Append(out, fr.row)

\* line 35: a, err = analysis.regress(i)
row_regressed(w, rg) ==
    /\ i' = w
    /\ sampled' = sampled + 1
    /\ analysis' = rg.self
    /\ IF rg.exc # "none"
       THEN /\ pc' = "error" /\ exc' = rg.exc
            /\ UNCHANGED <<a, err, out>>
       ELSE row_printed(w, rg, format_row(w, rg.a, rg.delta))

\* the next value of range(1, 151)
NextWindow(after) ==
    CHOOSE v \in LoopRange(after) : \A u \in LoopRange(after) : v <= u

\* lines 34-36: one iteration of the report loop
report_row ==
    /\ pc = "loop"
    /\ LoopRange(i) # {}
    /\ row_regressed(NextWindow(i),
                     analysis_regress(analysis, NextWindow(i), build))
    /\ UNCHANGED <<files, build, args, ret>>

\* lines 37-38: the table postamble, once the range is exhausted
postamble ==
    /\ pc = "loop"
    /\ LoopRange(i) = {}
    /\ out' = out \o <<BottomRule, EndTable>>
    /\ pc' = "tail"
    /\ UNCHANGED <<files, analysis, i, a, err, exc, sampled, build, args, ret>>

TailFirst == <<ArrayLine, ArrayLine, ArrayLine, BlankLine, ArrayLine, ArrayLine>>
TailSecond == <<BlankLine, BlankLine, ArrayLine, ArrayLine>>

\* lines 40-53, given what get_points(150) and regress(150) do
tail_effect(ps, rg) ==
    IF ps.exc # "none"
    THEN /\ pc' = "error" /\ exc' = ps.exc /\ out' = out
         /\ sampled' = sampled + 1
         /\ analysis' = ps.self
    ELSE IF rg.exc # "none"
    THEN /\ pc' = "error" /\ exc' = rg.exc /\ out' = out \o TailFirst
         /\ sampled' = sampled + 2
         /\ analysis' = rg.self
    ELSE /\ pc' = "done" /\ exc' = exc /\ out' = out \o TailFirst \o TailSecond
         /\ sampled' = sampled + 2
         /\ analysis' = rg.self

\* lines 40-53: the arrays printed after the table
tail ==
    /\ pc = "tail"
    /\ tail_effect(get_points(analysis, LastWindow),
                   analysis_regress(get_points(analysis, LastWindow).self,
                                    LastWindow, build))
    /\ UNCHANGED <<files, i, a, err, build, args, ret>>

Next ==
    \/ askopenfilenames
    \/ check_files
    \/ construct
    \/ preamble
    \/ report_row
    \/ postamble
    \/ tail

Spec == Init /\ [][Next]_vars

(***************************************************************************)
(* Claims about a run of the script (Spec).                                *)
(***************************************************************************)
\* the analysis as it was loaded from the selected files
Loaded == NewAnalysis(files.paths, SCHEMA)

\* the row a fresh Sampler + Regressor run with window size w prints
RowOf(w, rg) == format_row(w, rg.a, rg.delta).row

FreshRow(w) == RowOf(w, analysis_regress(Loaded, w, build))

\* points with a particle count <= 1 or a mean squared distance <= 0
BadPoints(ps) ==
    /\ ps.exc = "none"
    /\ \E d \in 1..Len(ps.nl) :
          \/ IsFin(ps.nl[d]) /\ ps.nl[d].v <= FScale
          \/ IsFin(ps.rl[d]) /\ ps.rl[d].v <= 0

\* C4: whenever a particle count n_i <= 1 or a mean squared distance r_i <= 0
\* enters the Regressor, the run ends in an error at that step, and no row
\* holding a value derived from NaN or Inf is ever printed.
C4_BadPointsEndTheRun ==
    /\ [](\A j \in 1..Len(out) :
              out[j].kind = "row" => IsFin(out[j].a) /\ IsFin(out[j].half))
    /\ [][(/\ pc = "loop"
           /\ LoopRange(i) # {}
           /\ BadPoints(get_points(analysis, NextWindow(i))))
          => (pc' = "error" /\ exc' # "none" /\ out' = out)]_vars

\* a run that ended at a window whose points were bad
C4_Witness ==
    /\ pc = "error"
    /\ exc \in {"ValueError", "OverflowError", "LinAlgError"}
    /\ i >= 1
    /\ BadPoints(get_points(analysis, i))

\* C5: once the check of an empty selection (an empty string or an empty
\* sequence) is passed, the run has ended in an error, with no analysis
\* object constructed, nothing sampled and nothing printed.
C5_EmptySelectionAborts ==
    (pc \notin {"ask", "check"} /\ files.paths = <<>>)
        => (/\ pc = "error"
            /\ analysis = NoAnalysis
            /\ sampled = 0
            /\ out = <<>>)

\* C6: the preamble precedes every row; the rows are those of the window
\* sizes 1, 2, ... in ascending order, one each, each the row of a fresh
\* Sampler + Regressor run; the postamble follows the row of window 150, and
\* a run without error prints all of them.
C6_TableOrder ==
    /\ \A j \in 1..Len(out) :
          out[j].kind = "row"
            => /\ j >= 3
               /\ out[1] = BeginTable /\ out[2] = TopRule
               /\ out[j].i = j - 2
               /\ out[j].i \in 1..LastWindow
    /\ \A j \in 1..Len(out) :
          out[j] \in {BottomRule, EndTable}
            => /\ j \in {LastWindow + 3, LastWindow + 4}
               /\ \A w \in 1..LastWindow : out[w + 2].kind = "row"
    /\ (out # <<>> /\ out[Len(out)].kind = "row")
          => out[Len(out)] = FreshRow(out[Len(out)].i)
    /\ pc \in {"tail", "done"}
          => /\ exc = "none"
             /\ Len(out) >= LastWindow + 4
             /\ \A w \in 1..LastWindow : out[w + 2] = FreshRow(w)
             /\ out[LastWindow + 3] = BottomRule
             /\ out[LastWindow + 4] = EndTable

\* a run that printed the whole table and finished
C6_Witness ==
    /\ pc = "done"
    /\ out[LastWindow + 2].kind = "row"
    /\ out[LastWindow + 2].i = LastWindow
    /\ out[LastWindow + 3] = BottomRule

(***************************************************************************)
(* Direct calls of the ProcessAnalysis methods on a loaded analysis.       *)
(***************************************************************************)
\* window sizes a caller passes; 0 takes the whole list (snaplist[-0:])
Counts == 0..MaxCount

InitLoaded(fs, bld) ==
    /\ pc = "api"
    /\ files = [kind |-> "tuple", paths |-> fs]
    /\ analysis = NewAnalysis(fs, SCHEMA)
    /\ out = <<>>
    /\ i = 0
    /\ a = Unbound
    /\ err = Unbound
    /\ exc = "none"
    /\ sampled = 0
    /\ build = bld
    /\ args = NoCall
    /\ ret = NoCall

\* the caller holds what the call returned; self is as the call left it
returned(op, k, r) ==
    /\ args' = [op |-> op, count |-> k]
    /\ ret' = [f \in (DOMAIN r) \ {"self"} |-> r[f]]
    /\ analysis' = r.self

\* analysis.get_points(k)
call_get_points ==
    /\ pc = "api"
    /\ \E k \in Counts : returned("get_points", k, get_points(analysis, k))
    /\ UNCHANGED <<pc, files, out, i, a, err, exc, sampled, build>>

\* analysis.regress(k)
call_regress ==
    /\ pc = "api"
    /\ \E k \in Counts : returned("regress", k, analysis_regress(analysis, k, build))
    /\ UNCHANGED <<pc, files, out, i, a, err, exc, sampled, build>>

\* one generated trajectory, sampled with every window size
InitPoints == \E t \in GenTrajs : InitLoaded(<<t>>, "nan")

NextPoints == call_get_points

SpecPoints == InitPoints /\ [][NextPoints]_vars

\* a selection of dump files, sampled and regressed in any order
InitAnalysis ==
    \E fs \in SeqsUpTo(RunTrajs, MaxFiles) : \E bld \in Builds : InitLoaded(fs, bld)

NextAnalysis ==
    \/ call_get_points
    \/ call_regress

SpecAnalysis == InitAnalysis /\ [][NextAnalysis]_vars

(***************************************************************************)
(* Claims about get_points (SpecPoints).                                   *)
(***************************************************************************)
\* the one trajectory of the analysis, in the order the file yields it
TheDump == files.paths[1]

\* squared end-to-end distance of a snapshot: the squared components of
\* position[last particle] - position[first particle], summed
SqDist(snap) ==
    LET first == snap.position[1]
        last == snap.position[snap.N]
    IN  (last[1] - first[1]) * (last[1] - first[1])
        + (last[2] - first[2]) * (last[2] - first[2])
        + (last[3] - first[3]) * (last[3] - first[3])

RECURSIVE SumSqDist(_, _)
SumSqDist(dump, W) ==
    IF W = {} THEN 0
    ELSE LET j == CHOOSE j \in W : TRUE
         IN  SqDist(dump[j]) + SumSqDist(dump, W \ {j})

\* the arithmetic mean of the squared end-to-end distances of the snapshots W
MeanOver(dump, W) == FDiv(FromInt(SumSqDist(dump, W)), FromInt(Cardinality(W)))

\* W holds k snapshots with the largest step values
LargestSteps(dump, W, k) ==
    /\ Cardinality(W) = k
    /\ \A j \in W : \A l \in (1..Len(dump)) \ W : dump[j].step >= dump[l].step

DistinctSteps(dump) ==
    \A j, l \in 1..Len(dump) : j # l => dump[j].step # dump[l].step

Returned(op) == args.op = op

\* C1: for a trajectory of m snapshots and 1 <= k <= m, get_points(k) returns
\* the arithmetic mean of the squared end-to-end distances of exactly k
\* snapshots with the largest step values.
C1_MeanOfLastK ==
    (Returned("get_points") /\ args.count >= 1 /\ args.count <= Len(TheDump))
        => /\ ret.exc = "none"
           /\ \E W \in SUBSET (1..Len(TheDump)) :
                 /\ LargestSteps(TheDump, W, args.count)
                 /\ ret.rl = <<MeanOver(TheDump, W)>>

\* a window strictly inside a trajectory that is not yielded in step order and
\* whose snapshots differ in distance
C1_Witness ==
    /\ Returned("get_points")
    /\ Len(TheDump) = 3
    /\ args.count = 2
    /\ TheDump[1].step > TheDump[2].step
    /\ TheDump[2].step > TheDump[3].step
    /\ SqDist(TheDump[1]) # SqDist(TheDump[3])
    /\ ret.rl = <<MeanOver(TheDump, {1, 2})>>

Perms(m) == { f \in [1..m -> 1..m] : \A j, l \in 1..m : j # l => f[j] # f[l] }

Permuted(dump, f) == [j \in 1..Len(dump) |-> dump[f[j]]]

\* get_points(k) gives the same pair whatever order the dump yields in
OrderIndependent(dump, k) ==
    \A f \in Perms(Len(dump)) :
        /\ PointOf(Permuted(dump, f), k).exc = "none"
        /\ <<PointOf(Permuted(dump, f), k).n>> = ret.nl
        /\ <<PointOf(Permuted(dump, f), k).r>> = ret.rl

\* C8 as stated: for every trajectory, window size k and order of the
\* snapshots, get_points(k) returns the same (particle count, mean) pair.
C8_AnyOrderSamePoint ==
    (Returned("get_points") /\ ret.exc = "none")
        => OrderIndependent(TheDump, args.count)

\* C8, amended: the same, for trajectories whose step values are pairwise
\* distinct.
C8_DistinctStepsSamePoint ==
    (Returned("get_points") /\ ret.exc = "none" /\ DistinctSteps(TheDump))
        => OrderIndependent(TheDump, args.count)

\* three snapshots with distinct steps, yielded out of order, cut by the window
C8_Witness ==
    /\ Returned("get_points")
    /\ ret.exc = "none"
    /\ DistinctSteps(TheDump)
    /\ Len(TheDump) = 3
    /\ args.count = 1
    /\ TheDump[1].step > TheDump[3].step
    /\ SqDist(TheDump[1]) # SqDist(TheDump[3])

\* C10: with 1 <= m < k snapshots get_points(k) does not fail and returns the
\* mean over all m snapshots, the value it returns for k = m.
C10_WindowClamped ==
    (Returned("get_points") /\ Len(TheDump) >= 1 /\ args.count >= Len(TheDump))
        => /\ ret.exc = "none"
           /\ ret.rl = <<MeanOver(TheDump, 1..Len(TheDump))>>
           /\ ret.rl = get_points(Loaded, Len(TheDump)).rl
           /\ ret.nl = get_points(Loaded, Len(TheDump)).nl

\* a window larger than the trajectory
C10_Witness ==
    /\ Returned("get_points")
    /\ Len(TheDump) = 2
    /\ args.count = 4
    /\ SqDist(TheDump[1]) # SqDist(TheDump[2])
    /\ ret.exc = "none"

(***************************************************************************)
(* Claims about the analysis object (SpecAnalysis).                        *)
(***************************************************************************)
SameReturn(r, fresh) ==
    r.exc = fresh.exc /\ r.a = fresh.a /\ r.delta = fresh.delta

\* C9: get_points and regress leave self.dumps and the schema unchanged, and
\* after any sequence of earlier calls regress(k) returns what it returns as
\* the first call on the freshly loaded analysis.
C9_CallsLeaveAnalysisAlone ==
    /\ [][analysis'.dumps = analysis.dumps /\ analysis'.schema = analysis.schema]_vars
    /\ [](Returned("regress")
            => SameReturn(ret, analysis_regress(Loaded, args.count, build)))

\* a regression returned from dumps that are not stored in step order
C9_Witness ==
    /\ Returned("regress")
    /\ ret.exc = "none"
    /\ IsFin(ret.delta)
    /\ Len(analysis.dumps) = 3
    /\ \E d \in 1..3 : analysis.dumps[d] # SortedByStep(analysis.dumps[d])

(***************************************************************************)
(* Direct calls of the module function regress(nvec, yvec).                *)
(***************************************************************************)
\* the largest value a finite number of the model holds
MaxReal == 2147483647 \div FScale

RECURSIVE Pow(_, _)
Pow(b, e) == IF e = 0 THEN 1 ELSE b * Pow(b, e - 1)

\* particle counts passed to regress
NVals == {1, 2, 11, 101}

\* mean squared distances that replace one point of a power law
RVals == {0, 1, 100}

\* r_i = (n_i - 1)^A
PowerLaw(ns, A) == [j \in 1..Len(ns) |-> FromInt(Pow(ns[j] - 1, A))]

Representable(ns, A) == \A j \in 1..Len(ns) : Pow(ns[j] - 1, A) <= MaxReal

\* the power laws over ns, and the linear law with one point replaced
YVecs(ns) ==
    { PowerLaw(ns, A) : A \in { B \in 0..MaxExp : Representable(ns, B) } }
    \cup { [j \in 1..Len(ns) |-> IF j = p THEN FromInt(r) ELSE PowerLaw(ns, 1)[j]] :
             p \in 1..Len(ns), r \in RVals }

InitRegress ==
    /\ pc = "fn"
    /\ files = EmptyString
    /\ analysis = NoAnalysis
    /\ out = <<>>
    /\ i = 0
    /\ a = Unbound
    /\ err = Unbound
    /\ exc = "none"
    /\ sampled = 0
    /\ build \in Builds
    /\ \E ns \in SeqsUpTo(NVals, MaxPts) : \E ys \in YVecs(ns) :
          args = [op |-> "input", ns |-> ns,
                  nvec |-> [j \in 1..Len(ns) |-> FromInt(ns[j])], yvec |-> ys]
    /\ ret = NoCall

\* regress(nvec, yvec)
call_regress_fn ==
    /\ pc = "fn"
    /\ args.op = "input"
    /\ args' = [args EXCEPT !.op = "regress_fn"]
    /\ ret' = regress(args.nvec, args.yvec, build)
    /\ UNCHANGED <<pc, files, analysis, out, i, a, err, exc, sampled, build>>

NextRegress == call_regress_fn

SpecRegress == InitRegress /\ [][NextRegress]_vars

\* C2: for at least 3 points with all n_i > 1, some n_i > 2 and
\* r_i = (n_i - 1)^A, regress returns the slope A and the standard error 0.
C2_PowerLawRecovered ==
    \A A \in 0..MaxExp :
        (/\ Returned("regress_fn")
         /\ Len(args.ns) >= 3
         /\ \A j \in 1..Len(args.ns) : args.ns[j] > 1
         /\ \E j \in 1..Len(args.ns) : args.ns[j] > 2
         /\ Representable(args.ns, A)
         /\ args.yvec = PowerLaw(args.ns, A))
            => (ret.exc = "none" /\ ret.a = FromInt(A) /\ ret.delta = Fin(0))

\* a law of exponent 2 over counts that differ
C2_Witness ==
    /\ Returned("regress_fn")
    /\ args.ns = <<2, 11, 101>>
    /\ args.yvec = PowerLaw(args.ns, 2)
    /\ ret.a = FromInt(2)

\* C3: regress with exactly 2 points ends in an error; it never returns an
\* (a, delta) whose delta is infinite or NaN.  Stated for points inside the
\* domain of the logarithms (n_i > 1, r_i > 0), where no build of LAPACK has
\* a say in the outcome.
C3_TwoPointsRaise ==
    (/\ Returned("regress_fn")
     /\ Len(args.nvec) = 2
     /\ \A j \in 1..2 : args.ns[j] > 1 /\ args.yvec[j].v > 0)
        => ret.exc # "none"

(***************************************************************************)
(* Formatting of one report row (line 36) for given a and delta.           *)
(***************************************************************************)
\* slopes: 1.2345, 0, 0.125, 0.25, 0.375, 1.9882, 2, -0.5, and non-finite ones
AVals ==
    { Fin(12345), Fin(0), Fin(1250), Fin(2500), Fin(3750), Fin(19882),
      Fin(20000), Fin(-5000), NaN, PInf }

\* standard errors: 0, 0.01, 0.005, 0.015, 0.03, 0.05, 0.6738, NaN, Inf
ErrVals ==
    { Fin(0), Fin(100), Fin(50), Fin(150), Fin(300), Fin(500), Fin(6738),
      NaN, PInf }

InitFormat ==
    /\ pc = "fmt"
    /\ files = EmptyString
    /\ analysis = NoAnalysis
    /\ out = <<>>
    /\ i \in {1, LastWindow}
    /\ a \in AVals
    /\ err \in ErrVals
    /\ exc = "none"
    /\ sampled = 0
    /\ build = "nan"
    /\ args = NoCall
    /\ ret = NoCall

\* print(f'    {i} & {a:.2f}({round(err * 100)}) & ...')
call_format_row ==
    /\ pc = "fmt"
    /\ args = NoCall
    /\ args' = [op |-> "format_row"]
    /\ ret' = format_row(i, a, err)
    /\ out' = IF format_row(i, a, err).exc = "none"
              THEN Append(out, format_row(i, a, err).row) ELSE out
    /\ UNCHANGED <<pc, files, analysis, i, a, err, exc, sampled, build>>

NextFormat == call_format_row

SpecFormat == InitFormat /\ [][NextFormat]_vars

\* n is an integer nearest to num / den
Nearest(n, num, den) == 2 * Abs(num - n * den) <= den

\* the printed row shows a and a / 2 with two decimals and, in parentheses,
\* delta * 100 and delta * 50 each rounded to the nearest integer
RowShowsRounded ==
    \A j \in 1..Len(out) :
        /\ out[j].i = i
        /\ IsFin(err)
        /\ Nearest(out[j].ea, err.v * 100, FScale)
        /\ Nearest(out[j].ehalf, err.v * 50, FScale)
        /\ IsFin(a) => /\ Nearest(out[j].a.v, a.v * 100, FScale)
                       /\ Nearest(out[j].half.v, a.v * 100, 2 * FScale)

IsExample == a = Fin(12345) /\ err = Fin(100)

\* C7 as stated: ... and a = 1.2345, delta = 0.01 yields "1.23(1)" and
\* "0.62(1)".
C7_RowAsStated ==
    /\ RowShowsRounded
    /\ (IsExample /\ Returned("format_row"))
          => /\ ret.exc = "none"
             /\ ret.row.a = Fin(123) /\ ret.row.ea = 1
             /\ ret.row.half = Fin(62) /\ ret.row.ehalf = 1

\* C7, amended: the same, a tie of delta * 100 or delta * 50 going to the even
\* integer, so that a = 1.2345, delta = 0.01 yields "1.23(1)" and "0.62(0)".
C7_RowTiesToEven ==
    /\ RowShowsRounded
    /\ \A j \in 1..Len(out) :
          /\ (2 * Abs(err.v * 100 - out[j].ea * FScale) = FScale)
                => out[j].ea % 2 = 0
          /\ (2 * Abs(err.v * 50 - out[j].ehalf * FScale) = FScale)
                => out[j].ehalf % 2 = 0
    /\ (IsExample /\ Returned("format_row"))
          => /\ ret.exc = "none"
             /\ ret.row.a = Fin(123) /\ ret.row.ea = 1
             /\ ret.row.half = Fin(62) /\ ret.row.ehalf = 0

\* the row of the example has been printed
C7_Witness ==
    /\ IsExample
    /\ Returned("format_row")
    /\ Len(out) = 1
    /\ out[1] = ret.row

====
